---------------------------- MODULE Spec2Model ----------------------------
(***************************************************************************)
(* A model of go-local-backup: the Backup function of backup.go (directive *)
(* interpreter, directory traversal, per-file sync decision, aggregation   *)
(* of errors) together with the filesystem capabilities of dependency.go   *)
(* and dependency_windows.go.                                              *)
(*                                                                         *)
(* Strings are sequences of one-character strings, so that trimming,       *)
(* prefix classification, splitting and path concatenation are computed    *)
(* the way the code computes them.  Times are integers counting hours.     *)
(***************************************************************************)
EXTENDS Integers, Sequences, FiniteSets, TLC

\* ------------------------------------------------------------------ bounds

\* Longest configuration (number of lines) handed to Backup.
MaxLines == 3

\* Most filesystem operations that fail (or lose an ignored error) in one execution.
MaxFaults == 1

\* The error cap of backup.go (a package variable, 100 by default, lowered by
\* TestBackup_TooManyErrors); kept small so that runs reach it.
maxErrors == 2

\* ------------------------------------------------------- program constants

HoursPerDay == 24

\* math.MaxInt64 does not fit TLC's integers; every size of the model is far below.
MaxInt64 == 2147483647

\* Permission bits, written in decimal: 0770, 0777, 0660, 0666, 0200.
destDirPermUnix == 504
destDirPermWin == 511
copyFilePerm == 432
createPerm == 438
ownerWriteBit == 128

\* time.Now(): the fifth day, seven in the morning.
Now == 4 * HoursPerDay + 7

\* ----------------------------------------------------------------- strings

RECURSIVE TrimLeft(_)
\* The string without its leading white space (the \s* of the directive patterns).
TrimLeft(s) ==
    IF s # <<>> /\ Head(s) \in {" ", "\t"} THEN TrimLeft(Tail(s)) ELSE s

RECURSIVE TrimRight(_)
TrimRight(s) ==
    IF s # <<>> /\ s[Len(s)] \in {" ", "\t"}
    THEN TrimRight(SubSeq(s, 1, Len(s) - 1))
    ELSE s

\* strings.TrimSpace
TrimSpace(s) == TrimRight(TrimLeft(s))

\* strings.HasPrefix
HasPrefix(s, p) == Len(s) >= Len(p) /\ SubSeq(s, 1, Len(p)) = p

\* strings.HasSuffix
HasSuffix(s, p) == Len(s) >= Len(p) /\ SubSeq(s, Len(s) - Len(p) + 1, Len(s)) = p

\* The rest of s after its first n characters.
Drop(s, n) == SubSeq(s, n + 1, Len(s))

\* strings.Contains
Contains(s, p) == \E k \in 0..(Len(s) - Len(p)) : SubSeq(s, k + 1, k + Len(p)) = p

\* strings.TrimSuffix
TrimSuffix(s, p) == IF HasSuffix(s, p) THEN SubSeq(s, 1, Len(s) - Len(p)) ELSE s

\* The position of the first occurrence of p in s, 0 when there is none.
Index(s, p) ==
    IF Contains(s, p)
    THEN CHOOSE k \in 1..Len(s) :
            /\ SubSeq(s, k, k + Len(p) - 1) = p
            /\ \A j \in 1..(k - 1) : SubSeq(s, j, j + Len(p) - 1) # p
    ELSE 0

RECURSIVE Split(_, _)
\* strings.Split(s, sep), sep not empty.
Split(s, sep) ==
    IF Index(s, sep) = 0
    THEN <<s>>
    ELSE <<SubSeq(s, 1, Index(s, sep) - 1)>>
            \o Split(Drop(s, Index(s, sep) + Len(sep) - 1), sep)

Digits == <<"0", "1", "2", "3", "4", "5", "6", "7", "8", "9">>

DigitValue(c) == (CHOOSE k \in 1..10 : Digits[k] = c) - 1

IsDigits(s) == s # <<>> /\ \A k \in 1..Len(s) : \E d \in 1..10 : Digits[d] = s[k]

RECURSIVE DigitsValue(_)
DigitsValue(s) ==
    IF s = <<>> THEN 0
    ELSE 10 * DigitsValue(SubSeq(s, 1, Len(s) - 1)) + DigitValue(s[Len(s)])

\* Seeded fault for C11: a conversion that reads what is no number as 0.
AtoiLenient(s) ==
    IF IsDigits(s) THEN [ok |-> TRUE, val |-> DigitsValue(s)]
    ELSE [ok |-> TRUE, val |-> 0]

\* strconv.Atoi / strconv.ParseInt(s, 10, 64): an optional sign and decimal digits.
\* [ok |-> FALSE] stands for the returned error.
Atoi(s) ==
    IF s # <<>> /\ Head(s) \in {"+", "-"}
    THEN IF IsDigits(Tail(s))
         THEN [ok |-> TRUE,
               val |-> IF Head(s) = "-" THEN 0 - DigitsValue(Tail(s))
                                        ELSE DigitsValue(Tail(s))]
         ELSE [ok |-> FALSE, val |-> 0]
    ELSE IF IsDigits(s)
         THEN [ok |-> TRUE, val |-> DigitsValue(s)]
         ELSE [ok |-> FALSE, val |-> 0]

\* The number of occurrences of character c in s.
Count(s, c) == Cardinality({k \in 1..Len(s) : s[k] = c})

\* regexp.Compile succeeds: the patterns of the model are literals, an
\* optional closing "$", groups; an unbalanced parenthesis or a leading
\* repetition operator is a syntax error.
RegexpCompiles(part) ==
    /\ Count(part, "(") = Count(part, ")")
    /\ Head(part) \notin {"+", "*", "?"}

\* (*regexp.Regexp).MatchString for those patterns: a literal matches anywhere
\* in the string, a literal closed by "$" at its end.
MatchString(rex, s) ==
    IF HasSuffix(rex, <<"$">>)
    THEN HasSuffix(s, SubSeq(rex, 1, Len(rex) - 1))
    ELSE Contains(s, rex)

\* ---------------------------------------------------------- platform, paths

\* filepath.Separator
Separator(win) == IF win THEN "\\" ELSE "/"

\* filepath.VolumeName: a drive letter and its colon on Windows, nothing elsewhere.
VolumeName(win, path) ==
    IF win /\ Len(path) >= 2 /\ path[2] = ":" THEN SubSeq(path, 1, 2) ELSE <<>>

\* filepath.Dir of a path that holds a separator and does not end in one.
Dir(win, path) ==
    LET last == CHOOSE k \in 1..Len(path) :
                    /\ path[k] = Separator(win)
                    /\ \A j \in (k + 1)..Len(path) : path[j] # Separator(win)
    IN  IF last = 1 THEN <<Separator(win)>> ELSE SubSeq(path, 1, last - 1)

\* The absolute path of the given names on the platform: /d/f or c:\d\f.
RECURSIVE JoinNames(_, _)
JoinNames(win, names) ==
    IF names = <<>> THEN <<>>
    ELSE <<Separator(win)>> \o Head(names) \o JoinNames(win, Tail(names))

Path(win, names) == (IF win THEN <<"c", ":">> ELSE <<>>) \o JoinNames(win, names)

\* -------------------------------------------------------- the source files

\* What stat and the traversal report of a source entry (fs.FileInfo).
DirInfo == [isDir |-> TRUE, size |-> 0, modTime |-> 0, symlink |-> FALSE]

FileInfo(size, modTime, symlink) ==
    [isDir |-> FALSE, size |-> size, modTime |-> modTime, symlink |-> symlink]

\* The source tree, in the lexical order filepath.WalkDir reports it: directory d
\* holds directory e (with file g), file f and symbolic link s; h is a file beside
\* d.  f is as old as the start of the day one day ago, h one hour older, g is
\* dated in the future and is the only file larger than one byte.
SourceTree(win) ==
    << [path |-> Path(win, <<<<"d">>>>), info |-> DirInfo],
       [path |-> Path(win, <<<<"d">>, <<"e">>>>), info |-> DirInfo],
       [path |-> Path(win, <<<<"d">>, <<"e">>, <<"g">>>>),
        info |-> FileInfo(2, Now + 1, FALSE)],
       [path |-> Path(win, <<<<"d">>, <<"f">>>>),
        info |-> FileInfo(1, 3 * HoursPerDay, FALSE)],
       [path |-> Path(win, <<<<"d">>, <<"s">>>>),
        info |-> FileInfo(1, 3 * HoursPerDay + 8, TRUE)],
       [path |-> Path(win, <<<<"h">>>>),
        info |-> FileInfo(1, 3 * HoursPerDay - 1, FALSE)] >>

\* statImpl (os.Lstat) of a source path: the entry of the tree, or an error.
stat(win, name) ==
    IF \E k \in 1..Len(SourceTree(win)) : SourceTree(win)[k].path = name
    THEN [ok |-> TRUE,
          info |-> SourceTree(win)[CHOOSE k \in 1..Len(SourceTree(win)) :
                                      SourceTree(win)[k].path = name].info]
    ELSE [ok |-> FALSE, info |-> DirInfo]

\* walkDirImpl (filepath.WalkDir): the root and everything below it, in order.
walkDir(win, root) ==
    LET Below(e) == e.path = root \/ HasPrefix(e.path, root \o <<Separator(win)>>)
    IN  SelectSeq(SourceTree(win), Below)

\* The entries left of a traversal after the callback returned fs.SkipDir for
\* directory dir: WalkDir reports nothing below it.
SkipDir(win, dir, rest) ==
    LET Outside(e) == ~HasPrefix(e.path, dir \o <<Separator(win)>>)
    IN  SelectSeq(rest, Outside)

\* ------------------------------------------------------ the destination tree

\* A destination file: its modification time, permission bits, and whether its
\* content is the whole content of its source.
DestFile(modTime, mode, whole) == [modTime |-> modTime, mode |-> mode, whole |-> whole]

\* The destination files present before the first run: under target b, an old
\* writable copy of f and an up-to-date copy of g, which is read-only (0444) on
\* Windows; nothing of h, nothing under c.
InitialDest(win) ==
    (Path(win, <<<<"b">>, <<"d">>, <<"f">>>>)
        :> DestFile(3 * HoursPerDay - 2, IF win THEN createPerm ELSE copyFilePerm, TRUE))
    @@ (Path(win, <<<<"b">>, <<"d">>, <<"e">>, <<"g">>>>)
        :> DestFile(Now + 1, IF win THEN 292 ELSE copyFilePerm, TRUE))

\* stat of a destination path.
statDest(fs, name) ==
    IF name \in DOMAIN fs THEN [ok |-> TRUE, info |-> fs[name]]
    ELSE [ok |-> FALSE, info |-> DestFile(0, 0, FALSE)]

\* mode & bit # 0, bit a power of two.
HasBit(mode, bit) == (mode \div bit) % 2 = 1

\* destDirPerm: 0770, set to 0777 by dependency_windows.go's init.
destDirPerm(win) == IF win THEN destDirPermWin ELSE destDirPermUnix

\* chmodImpl (os.Chmod) on an existing destination.  On Windows only the owner
\* write bit counts: it clears or sets the read-only attribute.
chmod(win, fs, name, mode) ==
    IF name \notin DOMAIN fs THEN fs
    ELSE [fs EXCEPT ![name].mode =
            IF win THEN (IF HasBit(mode, ownerWriteBit) THEN createPerm ELSE 292)
            ELSE mode]

\* ------------------------------------------------------------ backupContext

\* backupCounts{}
NoCounts == [dir |-> 0, files |-> 0, copied |-> 0]

\* The context Backup starts with.  out holds the lines written to the output
\* that carry information: warnings, dry-run paths, summaries, the fatal line.
NewContext(dry) ==
    [out |-> <<>>, dryRun |-> dry, targetPath |-> <<>>, startDate |-> 0,
     maxSize |-> MaxInt64, exclude |-> <<>>, count |-> NoCounts, msgs |-> <<>>]

\* fmt.Fprint to ctx.out
Fprint(c, item) == [c EXCEPT !.out = Append(@, item)]

\* Seeded fault for C6: msg that records the message and never panics.
msgNeverPanics(c, m) ==
    [ctx |-> [c EXCEPT !.msgs = Append(@, m)], panic |-> FALSE]

\* msg: appends the message and panics once maxErrors messages are recorded.
msg(c, m) ==
    [ctx |-> [c EXCEPT !.msgs = Append(@, m)],
     panic |-> Len(c.msgs) + 1 >= maxErrors]

RECURSIVE CompileParts(_, _)
\* Seeded fault for C19: a loop that gives up the directive at the first piece
\* that does not compile.
CompilePartsStopsAtError(c, parts) ==
    IF parts = <<>> THEN [ctx |-> c, panic |-> FALSE]
    ELSE IF Head(parts) = <<>> THEN CompileParts(c, Tail(parts))
    ELSE IF RegexpCompiles(Head(parts))
         THEN CompileParts([c EXCEPT !.exclude = Append(@, Head(parts))], Tail(parts))
         ELSE msg(c, <<"regexp", Head(parts)>>)

\* The loop of parseExclude over the pieces of the argument.
CompileParts(c, parts) ==
    IF parts = <<>> THEN [ctx |-> c, panic |-> FALSE]
    ELSE IF Head(parts) = <<>> THEN CompileParts(c, Tail(parts))
    ELSE IF RegexpCompiles(Head(parts))
         THEN CompileParts([c EXCEPT !.exclude = Append(@, Head(parts))], Tail(parts))
         ELSE IF msg(c, <<"regexp", Head(parts)>>).panic
              THEN msg(c, <<"regexp", Head(parts)>>)
              ELSE CompileParts(msg(c, <<"regexp", Head(parts)>>).ctx, Tail(parts))

\* Seeded fault for C8: parseExclude that never drops the patterns it holds.
parseExcludeKeeps(c, arg, extend) ==
    CompileParts(c, Split(TrimSpace(arg), <<",", ",">>))

\* parseExclude
parseExclude(c, arg, extend) ==
    CompileParts(IF extend THEN c ELSE [c EXCEPT !.exclude = <<>>],
                 Split(TrimSpace(arg), <<",", ",">>))

\* The start date a max-age directive of the given number of days sets: now
\* minus that many days, at 00:00 of its day.
StartDate(days) ==
    (Now - days * HoursPerDay) - ((Now - days * HoursPerDay) % HoursPerDay)

\* Seeded fault for C18: the patterns tried in another order, excludeRex
\* before the other three that begin with "!".
LineKindExcludeFirst(line) ==
    IF line = <<>> \/ HasPrefix(line, <<"#">>) THEN "ignored"
    ELSE IF HasPrefix(line, <<"=", ">">>) THEN "target"
    ELSE IF HasPrefix(line, <<"!">>) THEN "exclude"
    ELSE IF HasPrefix(line, <<"!", "@">>) THEN "maxAge"
    ELSE IF HasPrefix(line, <<"!", ">">>) THEN "maxSize"
    ELSE IF HasPrefix(line, <<"!", "+">>) THEN "extendExclude"
    ELSE "path"

\* The kind of a trimmed line, by the first pattern of processNonPathLine that
\* matches it.
LineKind(line) ==
    IF line = <<>> \/ HasPrefix(line, <<"#">>) THEN "ignored"
    ELSE IF HasPrefix(line, <<"=", ">">>) THEN "target"
    ELSE IF HasPrefix(line, <<"!", "@">>) THEN "maxAge"
    ELSE IF HasPrefix(line, <<"!", ">">>) THEN "maxSize"
    ELSE IF HasPrefix(line, <<"!", "+">>) THEN "extendExclude"
    ELSE IF HasPrefix(line, <<"!">>) THEN "exclude"
    ELSE "path"

\* The submatch of the line's pattern: what follows the prefix and white space.
Argument(line) ==
    TrimLeft(Drop(line, IF LineKind(line) = "exclude" THEN 1 ELSE 2))

\* Seeded fault for C21: a target directive that also starts its section with
\* the default filters.
processNonPathLineTargetResets(win, c, line) ==
    CASE LineKind(line) = "ignored" ->
            [ctx |-> c, handled |-> TRUE, panic |-> FALSE]
      [] LineKind(line) = "target" ->
            [ctx |-> [c EXCEPT !.targetPath =
                        TrimSuffix(Argument(line), <<Separator(win)>>),
                               !.startDate = 0,
                               !.maxSize = MaxInt64,
                               !.exclude = <<>>],
             handled |-> TRUE, panic |-> FALSE]
      [] LineKind(line) = "maxAge" ->
            [ctx |-> IF Atoi(Argument(line)).ok
                     THEN [c EXCEPT !.startDate = StartDate(Atoi(Argument(line)).val)]
                     ELSE Fprint(c, <<"WARN">>),
             handled |-> TRUE, panic |-> FALSE]
      [] LineKind(line) = "maxSize" ->
            [ctx |-> IF Atoi(Argument(line)).ok
                     THEN [c EXCEPT !.maxSize = Atoi(Argument(line)).val]
                     ELSE Fprint(c, <<"WARN">>),
             handled |-> TRUE, panic |-> FALSE]
      [] LineKind(line) = "extendExclude" ->
            [ctx |-> parseExclude(c, Argument(line), TRUE).ctx,
             handled |-> TRUE,
             panic |-> parseExclude(c, Argument(line), TRUE).panic]
      [] LineKind(line) = "exclude" ->
            [ctx |-> parseExclude(c, Argument(line), FALSE).ctx,
             handled |-> TRUE,
             panic |-> parseExclude(c, Argument(line), FALSE).panic]
      [] OTHER ->
            [ctx |-> c, handled |-> FALSE, panic |-> FALSE]

\* processNonPathLine: handled is its result, panic tells that msg panicked.
processNonPathLine(win, c, line) ==
    CASE LineKind(line) = "ignored" ->
            [ctx |-> c, handled |-> TRUE, panic |-> FALSE]
      [] LineKind(line) = "target" ->
            [ctx |-> [c EXCEPT !.targetPath =
                        TrimSuffix(Argument(line), <<Separator(win)>>)],
             handled |-> TRUE, panic |-> FALSE]
      [] LineKind(line) = "maxAge" ->
            [ctx |-> IF Atoi(Argument(line)).ok
                     THEN [c EXCEPT !.startDate = StartDate(Atoi(Argument(line)).val)]
                     ELSE Fprint(c, <<"WARN">>),
             handled |-> TRUE, panic |-> FALSE]
      [] LineKind(line) = "maxSize" ->
            [ctx |-> IF Atoi(Argument(line)).ok
                     THEN [c EXCEPT !.maxSize = Atoi(Argument(line)).val]
                     ELSE Fprint(c, <<"WARN">>),
             handled |-> TRUE, panic |-> FALSE]
      [] LineKind(line) = "extendExclude" ->
            [ctx |-> parseExclude(c, Argument(line), TRUE).ctx,
             handled |-> TRUE,
             panic |-> parseExclude(c, Argument(line), TRUE).panic]
      [] LineKind(line) = "exclude" ->
            [ctx |-> parseExclude(c, Argument(line), FALSE).ctx,
             handled |-> TRUE,
             panic |-> parseExclude(c, Argument(line), FALSE).panic]
      [] OTHER ->
            [ctx |-> c, handled |-> FALSE, panic |-> FALSE]

\* -------------------------------------------------------- the copy capability

\* How a call of copy can end.  copyImpl: the source does not open, the
\* destination is not created, the content copy breaks off, or the copy is
\* done and os.Chmod or os.Chtimes (whose errors are dropped) fails.
\* copyWinImpl: CopyFileW fails or succeeds.
CopyOutcomes(win) ==
    IF win THEN {"ok", "call_failed"}
    ELSE {"ok", "open_failed", "create_failed", "copy_failed",
          "chmod_failed", "chtimes_failed"}

\* The permission bits of dest before the copy changes them: those of the
\* existing file, those os.Create gives a new one.
ModeBefore(fs, dest) == IF dest \in DOMAIN fs THEN fs[dest].mode ELSE createPerm

\* copyImpl: [err, fs] are the returned error (TRUE for non-nil) and the
\* destination files after the call.
copyImpl(fs, dest, srcInfo, outcome) ==
    CASE outcome \in {"open_failed", "create_failed"} ->
            [err |-> TRUE, fs |-> fs]
      [] outcome = "copy_failed" ->
            [err |-> TRUE,
             fs |-> (dest :> DestFile(Now, ModeBefore(fs, dest), FALSE)) @@ fs]
      [] outcome = "chmod_failed" ->
            [err |-> FALSE,
             fs |-> (dest :> DestFile(srcInfo.modTime, ModeBefore(fs, dest), TRUE)) @@ fs]
      [] outcome = "chtimes_failed" ->
            [err |-> FALSE,
             fs |-> (dest :> DestFile(Now, copyFilePerm, TRUE)) @@ fs]
      [] OTHER ->
            [err |-> FALSE,
             fs |-> (dest :> DestFile(srcInfo.modTime, copyFilePerm, TRUE)) @@ fs]

\* copyWinImpl: CopyFileW copies the content, the attributes and the times of
\* the source (a writable file), or fails and leaves no new file.
copyWinImpl(fs, dest, srcInfo, outcome) ==
    IF outcome = "call_failed"
    THEN [err |-> TRUE, fs |-> fs]
    ELSE [err |-> FALSE,
          fs |-> (dest :> DestFile(srcInfo.modTime, createPerm, TRUE)) @@ fs]

\* copy: copyImpl, replaced by copyWinImpl in dependency_windows.go's init.
copy(win, fs, dest, srcInfo, outcome) ==
    IF win THEN copyWinImpl(fs, dest, srcInfo, outcome)
    ELSE copyImpl(fs, dest, srcInfo, outcome)

\* --------------------------------------------------------------- handleFile

\* How the capabilities handleFile may call end: mkdirAll succeeds or not, and
\* the outcome of copy.
Effects(win) ==
    {[mkdirAll |-> FALSE, copy |-> "ok"]}
        \cup {[mkdirAll |-> TRUE, copy |-> o] : o \in CopyOutcomes(win)}

NoFault == [mkdirAll |-> TRUE, copy |-> "ok"]

\* A call of a filesystem capability: the operation, its path argument, and
\* the source file it is made for.
Call(op, path, src) == [op |-> op, path |-> path, src |-> src]

\* srcInfo matches an active exclude pattern.
Excluded(c, path) == \E k \in 1..Len(c.exclude) : MatchString(c.exclude[k], path)

\* Seeded fault for C9: a destination that keeps the volume name of the source.
DestPathKeepsVolume(win, c, srcPath) == c.targetPath \o srcPath

\* The destination of a source file: the target, then the source path without
\* its volume name.
DestPath(win, c, srcPath) ==
    c.targetPath \o Drop(srcPath, Len(VolumeName(win, srcPath)))

\* The result of handleFile when it returns without touching the destination.
Skipped(c, fs, calls) ==
    [ctx |-> c, fs |-> fs, calls |-> calls, panic |-> FALSE, faults |-> 0]

\* handleFile from the stat of the destination on (lines 239-271); c already
\* counts the file.
syncFile(win, c, fs, srcPath, srcInfo, fx) ==
    LET destPath == DestPath(win, c, srcPath)
        destInfo == statDest(fs, destPath)
        doChmod  == destInfo.ok /\ win /\ HasBit(destInfo.info.mode, ownerWriteBit)
        doMkdir  == ~destInfo.ok /\ ~c.dryRun
        fs1      == IF doChmod THEN chmod(win, fs, destPath, destDirPerm(win)) ELSE fs
        calls1   == <<Call("stat", destPath, srcPath)>>
                    \o (IF doChmod THEN <<Call("chmod", destPath, srcPath)>> ELSE <<>>)
                    \o (IF doMkdir THEN <<Call("mkdirAll", Dir(win, destPath), srcPath)>>
                        ELSE <<>>)
        copied   == copy(win, fs1, destPath, srcInfo, fx.copy)
        calls2   == Append(calls1, Call("copy", destPath, srcPath))
    IN  IF destInfo.ok /\ ~(destInfo.info.modTime < srcInfo.modTime)
        THEN Skipped(c, fs, <<Call("stat", destPath, srcPath)>>)
        ELSE IF doMkdir /\ ~fx.mkdirAll
        THEN [ctx |-> msg(c, <<"mkdirAll", destPath>>).ctx, fs |-> fs1,
              calls |-> calls1, panic |-> msg(c, <<"mkdirAll", destPath>>).panic,
              faults |-> 1]
        ELSE IF c.dryRun
        THEN Skipped([Fprint(c, <<"copy", srcPath>>) EXCEPT !.count.copied = @ + 1],
                     fs1, calls1)
        ELSE IF copied.err
        THEN [ctx |-> msg(c, <<"copy", fx.copy>>).ctx, fs |-> copied.fs,
              calls |-> calls2, panic |-> msg(c, <<"copy", fx.copy>>).panic,
              faults |-> 1]
        ELSE [ctx |-> [c EXCEPT !.count.copied = @ + 1], fs |-> copied.fs,
              calls |-> calls2, panic |-> FALSE,
              faults |-> IF fx.copy = "ok" THEN 0 ELSE 1]

\* Seeded fault for C3: handleFile that skips a file as large as maxSize.
handleFileSizeStrict(win, c, fs, srcPath, srcInfo, fx) ==
    IF srcInfo.symlink \/ srcInfo.size >= c.maxSize
       \/ srcInfo.modTime < c.startDate \/ Excluded(c, srcPath)
    THEN Skipped([c EXCEPT !.count.files = @ + 1], fs, <<>>)
    ELSE syncFile(win, [c EXCEPT !.count.files = @ + 1], fs, srcPath, srcInfo, fx)

\* handleFile: [ctx, fs] are the context and the destination files after it,
\* calls the capability calls it made, panic whether msg panicked, faults the
\* number of calls that failed.
handleFile(win, c, fs, srcPath, srcInfo, fx) ==
    IF srcInfo.symlink
    THEN Skipped([c EXCEPT !.count.files = @ + 1], fs, <<>>)
    ELSE IF srcInfo.size > c.maxSize
    THEN Skipped([c EXCEPT !.count.files = @ + 1], fs, <<>>)
    ELSE IF srcInfo.modTime < c.startDate
    THEN Skipped([c EXCEPT !.count.files = @ + 1], fs, <<>>)
    ELSE IF Excluded(c, srcPath)
    THEN Skipped([c EXCEPT !.count.files = @ + 1], fs, <<>>)
    ELSE syncFile(win, [c EXCEPT !.count.files = @ + 1], fs, srcPath, srcInfo, fx)

\* ------------------------------------------------------------ configurations

\* The lines configurations are made of: both targets (the second written with
\* white space and a closing separator), a target directive without a path,
\* the filters (with a number, and with an argument that is none), exclude
\* directives (one
\* with a pattern that does not compile beside one that does, one whose pattern
\* matches the directory source itself, one that clears the set), a comment, and the sources: directory d, file h, and n, which does
\* not exist.
Lines(win) ==
    { <<"=", ">">> \o Path(win, <<<<"b">>>>),
      <<"=", ">">>,
      <<"=", ">", " ">> \o Path(win, <<<<"c">>>>) \o <<Separator(win)>>,
      <<" ", "!", "@", "1">>,
      <<"!", ">", "1">>,
      <<"!", "@", "x">>,
      <<"!", ">", "x">>,
      <<"!", "f">>,
      <<"!", "d">>,
      <<"!", "+", "e">>,
      <<"!", "(", ",", ",", "g">>,
      <<"!">>,
      <<"#">>,
      Path(win, <<<<"d">>>>),
      Path(win, <<<<"h">>>>),
      Path(win, <<<<"n">>>>) }

\* Every configuration of at most MaxLines of these lines.
Configs(win) == UNION {[1..n -> Lines(win)] : n \in 0..MaxLines}

\* ------------------------------------------------------------------- state

VARIABLES
    isWin,      \* runtime.GOOS == "windows"
    config,     \* Backup's argument config
    ctx,        \* Backup's backupContext
    pc,         \* where Backup stands: "line", "walk" (inside walkDir), "done"
    i,          \* the position in config of the line the loop is at
    walk,       \* the entries walkDir has not reported yet
    dest,       \* the destination files
    ev,         \* Backup's result, once it returned
    calls,      \* every capability call made so far, in order
    lastEval,   \* what the last call of handleFile was given and what it called
    faults,     \* the number of capability calls that failed so far
    run,        \* 1 during the first call of Backup, 2 during the second
    first       \* the context and the result the first call of Backup ended with

vars == <<isWin, config, ctx, pc, i, walk, dest, ev, calls, lastEval, faults, run,
          first>>

\* What a call of Backup leaves alone: the platform, its argument, and what is
\* known of the call before it.
input == <<isWin, config, run, first>>

NoEval == [run |-> 0]

Init ==
    /\ isWin \in BOOLEAN
    /\ config \in Configs(isWin)
    /\ ctx \in {NewContext(dry) : dry \in BOOLEAN}
    /\ pc = "line"
    /\ i = 1
    /\ walk = <<>>
    /\ dest = InitialDest(isWin)
    /\ ev = [kind |-> "running", n |-> 0]
    /\ calls = <<>>
    /\ lastEval = NoEval
    /\ faults = 0
    /\ run = 1
    /\ first = [ev |-> [kind |-> "running", n |-> 0], ctx |-> NewContext(FALSE)]

\* The calls of one step, with the line and the run they are made in.
Logged(cs) ==
    [k \in 1..Len(cs) |->
        [op |-> cs[k].op, path |-> cs[k].path, src |-> cs[k].src,
         line |-> i, run |-> run]]

\* Seeded fault for C7: a deferred function that leaves the result alone.
DeferredKeepsResult(c, returned) == returned

\* The result the deferred function of Backup leaves: the count of messages
\* when there is any, else what the body returned.
Deferred(c, returned) ==
    IF Len(c.msgs) > 0
    THEN [kind |-> "errors", n |-> Len(c.msgs)]
    ELSE returned

\* What the deferred function writes: the recovered panic value, the error block.
DeferredOut(c, panicked) ==
    IF Len((IF panicked THEN Fprint(c, <<"panic">>) ELSE c).msgs) > 0
    THEN Fprint(IF panicked THEN Fprint(c, <<"panic">>) ELSE c,
                <<"errors", Len(c.msgs)>>)
    ELSE IF panicked THEN Fprint(c, <<"panic">>) ELSE c

\* Backup ends by a panic of msg: the deferred function recovers it.
Panicked(c) ==
    /\ ctx' = DeferredOut(c, TRUE)
    /\ ev' = Deferred(c, [kind |-> "nil", n |-> 0])
    /\ pc' = "done"
    /\ UNCHANGED <<i, walk>>

\* The trimmed line the loop of Backup is at.
CurrentLine == TrimSpace(config[i])

AtLine == pc = "line" /\ i <= Len(config)

\* What handleFile was given (the file, the context and the destination files
\* before the call, how mkdirAll and copy would end) and the calls it made.
Eval(srcPath, srcInfo, fx, made) ==
    [run |-> run, line |-> i, src |-> srcPath, info |-> srcInfo, ctx |-> ctx,
     fs |-> dest, mkdirOk |-> fx.mkdirAll, copy |-> fx.copy, calls |-> made]

\* handleFile called by Backup or by the callback of handleDir, with the
\* outcomes fx of the capabilities; a failing outcome is one that is met.
HandleFileStep(srcPath, srcInfo, fx, before) ==
    LET r == handleFile(isWin, ctx, dest, srcPath, srcInfo, fx)
    IN  /\ r.faults = (IF fx = NoFault THEN 0 ELSE 1)
        /\ faults + r.faults <= MaxFaults
        /\ faults' = faults + r.faults
        /\ dest' = r.fs
        /\ calls' = calls \o Logged(before \o r.calls)
        /\ lastEval' = Eval(srcPath, srcInfo, fx, r.calls)
        /\ IF r.panic
           THEN Panicked(r.ctx)
           ELSE /\ ctx' = r.ctx
                /\ ev' = ev
                /\ IF pc = "walk"
                   THEN pc' = pc /\ i' = i /\ walk' = Tail(walk)
                   ELSE pc' = pc /\ i' = i + 1 /\ walk' = walk

\* ------------------------------------------------------------------ actions

\* A line processNonPathLine handles (backup.go lines 79-83).
DirectiveLine ==
    /\ AtLine
    /\ processNonPathLine(isWin, ctx, CurrentLine).handled
    /\ IF processNonPathLine(isWin, ctx, CurrentLine).panic
       THEN Panicked(processNonPathLine(isWin, ctx, CurrentLine).ctx)
       ELSE /\ ctx' = processNonPathLine(isWin, ctx, CurrentLine).ctx
            /\ i' = i + 1
            /\ UNCHANGED <<pc, walk, ev>>
    /\ UNCHANGED <<input, dest, calls, lastEval, faults>>

\* Seeded fault for C2: MissingTarget that writes the fatal line and goes on
\* with the next line instead of returning.
MissingTargetGoesOn ==
    /\ AtLine
    /\ ~processNonPathLine(isWin, ctx, CurrentLine).handled
    /\ ctx.targetPath = <<>>
    /\ ctx' = Fprint(ctx, <<"FATAL">>)
    /\ i' = i + 1
    /\ UNCHANGED <<input, pc, ev, walk, dest, calls, lastEval, faults>>

\* A source line while no target is set (lines 85-89): the fatal error is
\* returned, and the deferred function runs.
MissingTarget ==
    /\ AtLine
    /\ ~processNonPathLine(isWin, ctx, CurrentLine).handled
    /\ ctx.targetPath = <<>>
    /\ ctx' = DeferredOut(Fprint(ctx, <<"FATAL">>), FALSE)
    /\ ev' = Deferred(ctx, [kind |-> "target", n |-> 0])
    /\ pc' = "done"
    /\ UNCHANGED <<input, i, walk, dest, calls, lastEval, faults>>

\* Seeded fault for C16: a failing stat of a source line that ends the run.
SourceStatFailsReturns ==
    /\ AtLine
    /\ ~processNonPathLine(isWin, ctx, CurrentLine).handled
    /\ ctx.targetPath # <<>>
    /\ ~stat(isWin, CurrentLine).ok
    /\ calls' = calls \o Logged(<<Call("stat", CurrentLine, CurrentLine)>>)
    /\ Panicked(msg(ctx, <<"stat", CurrentLine>>).ctx)
    /\ UNCHANGED <<input, dest, lastEval, faults>>

\* A source line whose stat fails (lines 91-96).
SourceStatFails ==
    /\ AtLine
    /\ ~processNonPathLine(isWin, ctx, CurrentLine).handled
    /\ ctx.targetPath # <<>>
    /\ ~stat(isWin, CurrentLine).ok
    /\ calls' = calls \o Logged(<<Call("stat", CurrentLine, CurrentLine)>>)
    /\ IF msg(ctx, <<"stat", CurrentLine>>).panic
       THEN Panicked(msg(ctx, <<"stat", CurrentLine>>).ctx)
       ELSE /\ ctx' = msg(ctx, <<"stat", CurrentLine>>).ctx
            /\ i' = i + 1
            /\ UNCHANGED <<pc, walk, ev>>
    /\ UNCHANGED <<input, dest, lastEval, faults>>

\* A source line naming a directory (lines 91-100): handleDir resets the
\* counters and starts the traversal.
SourceDir ==
    /\ AtLine
    /\ ~processNonPathLine(isWin, ctx, CurrentLine).handled
    /\ ctx.targetPath # <<>>
    /\ stat(isWin, CurrentLine).ok
    /\ stat(isWin, CurrentLine).info.isDir
    /\ ctx' = [ctx EXCEPT !.count = NoCounts]
    /\ walk' = walkDir(isWin, CurrentLine)
    /\ pc' = "walk"
    /\ calls' = calls \o Logged(<<Call("stat", CurrentLine, CurrentLine),
                                  Call("walkDir", CurrentLine, CurrentLine)>>)
    /\ UNCHANGED <<input, i, dest, ev, lastEval, faults>>

\* A source line naming a file (lines 91-103): handleFile.
SourceFile ==
    /\ AtLine
    /\ ~processNonPathLine(isWin, ctx, CurrentLine).handled
    /\ ctx.targetPath # <<>>
    /\ stat(isWin, CurrentLine).ok
    /\ ~stat(isWin, CurrentLine).info.isDir
    /\ \E fx \in Effects(isWin) :
          HandleFileStep(CurrentLine, stat(isWin, CurrentLine).info, fx,
                         <<Call("stat", CurrentLine, CurrentLine)>>)
    /\ UNCHANGED input

\* The callback of handleDir on a directory (lines 190-197): fs.SkipDir when an
\* exclude pattern matches the path with a closing separator, else it is counted.
WalkDirectory ==
    /\ pc = "walk"
    /\ walk # <<>>
    /\ Head(walk).info.isDir
    /\ IF Excluded(ctx, Head(walk).path \o <<Separator(isWin)>>)
       THEN /\ walk' = SkipDir(isWin, Head(walk).path, Tail(walk))
            /\ ctx' = ctx
       ELSE /\ walk' = Tail(walk)
            /\ ctx' = [ctx EXCEPT !.count.dir = @ + 1]
    /\ UNCHANGED <<input, pc, i, dest, ev, calls, lastEval, faults>>

\* The callback of handleDir on another entry (lines 198-203): handleFile when
\* d.Info() succeeds.
WalkFile ==
    /\ pc = "walk"
    /\ walk # <<>>
    /\ ~Head(walk).info.isDir
    /\ \E fx \in Effects(isWin) :
          HandleFileStep(Head(walk).path, Head(walk).info, fx, <<>>)
    /\ UNCHANGED input

\* The callback of handleDir on an entry whose d.Info() fails (lines 199-203):
\* nothing is done.  On Windows the entry holds its FileInfo and Info never fails.
WalkInfoFails ==
    /\ pc = "walk"
    /\ walk # <<>>
    /\ ~Head(walk).info.isDir
    /\ ~isWin
    /\ faults < MaxFaults
    /\ faults' = faults + 1
    /\ walk' = Tail(walk)
    /\ UNCHANGED <<input, ctx, pc, i, dest, ev, calls, lastEval>>

\* filepath.WalkDir cannot read a directory the callback did not skip: it calls
\* the callback a second time for it, with the error, and reports nothing below
\* it.  The callback (lines 190-197) does not look at the error and counts the
\* directory again.
WalkReadDirFails ==
    /\ pc = "walk"
    /\ walk # <<>>
    /\ Head(walk).info.isDir
    /\ ~Excluded(ctx, Head(walk).path \o <<Separator(isWin)>>)
    /\ faults < MaxFaults
    /\ faults' = faults + 1
    /\ walk' = SkipDir(isWin, Head(walk).path, Tail(walk))
    /\ ctx' = [ctx EXCEPT !.count.dir = @ + 2]
    /\ UNCHANGED <<input, pc, i, dest, ev, calls, lastEval>>

\* walkDir returned (lines 207-211): the summary is written, Backup goes on
\* with the next line.
WalkDone ==
    /\ pc = "walk"
    /\ walk = <<>>
    /\ ctx' = Fprint(ctx, <<"summary", ctx.count.dir, ctx.count.files,
                            ctx.count.copied>>)
    /\ pc' = "line"
    /\ i' = i + 1
    /\ UNCHANGED <<input, walk, dest, ev, calls, lastEval, faults>>

\* The loop is over (line 106): Backup returns through the deferred function.
Return ==
    /\ pc = "line"
    /\ i > Len(config)
    /\ ctx' = DeferredOut(ctx, FALSE)
    /\ ev' = Deferred(ctx, [kind |-> "nil", n |-> 0])
    /\ pc' = "done"
    /\ UNCHANGED <<input, i, walk, dest, calls, lastEval, faults>>

Next ==
    \/ DirectiveLine
    \/ MissingTarget
    \/ SourceStatFails
    \/ SourceDir
    \/ SourceFile
    \/ WalkDirectory
    \/ WalkFile
    \/ WalkInfoFails
    \/ WalkReadDirFails
    \/ WalkDone
    \/ Return

Spec == Init /\ [][Next]_vars

\* The lines of the configurations that make errors, after configErrors of the
\* tests: a target, an exclude directive whose pattern does not compile, and
\* the three sources.
ErrorLines(win) ==
    { <<"=", ">", " ">> \o Path(win, <<<<"c">>>>) \o <<Separator(win)>>,
      <<"!", "(">>,
      Path(win, <<<<"d">>>>),
      Path(win, <<<<"h">>>>),
      Path(win, <<<<"n">>>>) }

\* Backup called with one of those configurations.
InitErrors ==
    /\ isWin \in BOOLEAN
    /\ config \in UNION {[1..n -> ErrorLines(isWin)] : n \in 0..MaxLines}
    /\ ctx \in {NewContext(dry) : dry \in BOOLEAN}
    /\ pc = "line"
    /\ i = 1
    /\ walk = <<>>
    /\ dest = InitialDest(isWin)
    /\ ev = [kind |-> "running", n |-> 0]
    /\ calls = <<>>
    /\ lastEval = NoEval
    /\ faults = 0
    /\ run = 1
    /\ first = [ev |-> [kind |-> "running", n |-> 0], ctx |-> NewContext(FALSE)]

\* Backup runs in one goroutine and nothing it calls blocks for ever: as long
\* as a step is possible, one is taken.
FairSpec == InitErrors /\ [][Next]_vars /\ WF_vars(Next)

\* Backup is called a second time with the same configuration, not as a dry
\* run, on the destination files the first call left.
SecondRun ==
    /\ pc = "done"
    /\ run = 1
    /\ run' = 2
    /\ first' = [ev |-> ev, ctx |-> ctx]
    /\ ctx' = NewContext(FALSE)
    /\ pc' = "line"
    /\ i' = 1
    /\ walk' = <<>>
    /\ ev' = [kind |-> "running", n |-> 0]
    /\ UNCHANGED <<isWin, config, dest, calls, lastEval, faults>>

NextTwice ==
    \/ Next
    \/ SecondRun

\* Two calls of Backup in succession.
SpecTwice == Init /\ [][NextTwice]_vars

\* =================================================================== claims

\* The calls made during the current call of Backup.
RunCalls == SelectSeq(calls, LAMBDA c : c.run = run)

\* Backup wrote the fatal line: it met a source line while no target was set.
Fatal == \E k \in 1..Len(ctx.out) : ctx.out[k] = <<"FATAL">>

\* The deferred function of Backup recovered a panic of msg.
Aborted == \E k \in 1..Len(ctx.out) : ctx.out[k] = <<"panic">>

\* Line n of the configuration is a source path.
IsPathLine(n) == LineKind(TrimSpace(config[n])) = "path"

\* C1: whenever Backup has ended on a source line met while no target was set,
\* whatever came before it, its result is the "target path must be specified"
\* error and not the "<N> errors" one.
C1_MissingTargetError == Fatal => ev.kind = "target"

\* The position of the first source line of the configuration, 0 without one.
FirstPathLine ==
    IF \E n \in 1..Len(config) : IsPathLine(n)
    THEN CHOOSE n \in 1..Len(config) :
            IsPathLine(n) /\ \A m \in 1..(n - 1) : ~IsPathLine(m)
    ELSE 0

\* The target in effect at line n: the argument, without a closing separator,
\* of the last target directive before it; empty when there is none.
TargetBefore(n) ==
    IF \E t \in 1..(n - 1) : LineKind(TrimSpace(config[t])) = "target"
    THEN LET t == CHOOSE t \in 1..(n - 1) :
                    /\ LineKind(TrimSpace(config[t])) = "target"
                    /\ \A u \in (t + 1)..(n - 1) :
                          LineKind(TrimSpace(config[u])) # "target"
         IN  TrimSuffix(Argument(TrimSpace(config[t])), <<Separator(isWin)>>)
    ELSE <<>>

\* C2: when no target is set at the first source line of the configuration,
\* the loop never gets past that line, no capability is ever called, no file
\* is counted, the destination files stay those Backup started with, and the
\* fatal error ends the run at that line.
C2_FatalNoWork ==
    (FirstPathLine # 0 /\ TargetBefore(FirstPathLine) = <<>>) =>
        /\ i <= FirstPathLine
        /\ RunCalls = <<>>
        /\ ctx.count = NoCounts
        /\ walk = <<>>
        /\ run = 1 => dest = InitialDest(isWin)
        /\ Fatal => pc = "done" /\ i = FirstPathLine

\* C2's case: the fatal error ended the run on its first source line, after
\* a directive was interpreted and with lines left behind it.
C2_Witness ==
    /\ Fatal
    /\ pc = "done"
    /\ i = FirstPathLine
    /\ 1 < i
    /\ i < Len(config)

\* The evaluation e of handleFile called copy for its file.
CopyCalled(e) ==
    \E k \in 1..Len(e.calls) : e.calls[k].op = "copy" /\ e.calls[k].src = e.src

\* The destination of the file of evaluation e, as stat saw it before the call.
DestBefore(e) == statDest(e.fs, e.ctx.targetPath \o Drop(e.src, Len(VolumeName(isWin, e.src))))

\* The conditions of C3 on the file of evaluation e.
Eligible(e) ==
    /\ ~e.info.symlink
    /\ e.info.size <= e.ctx.maxSize
    /\ e.info.modTime >= e.ctx.startDate
    /\ \A k \in 1..Len(e.ctx.exclude) : ~MatchString(e.ctx.exclude[k], e.src)
    /\ \/ ~DestBefore(e).ok /\ e.mkdirOk
       \/ DestBefore(e).ok /\ DestBefore(e).info.modTime < e.info.modTime

\* C3: in a run that is not a dry run, handleFile calls copy for a file exactly
\* when the file is no symbolic link, is not larger than maxSize, is not older
\* than startDate, matches no exclude pattern, and its destination is missing
\* with mkdirAll succeeding or is older than the file; a symbolic link is never
\* copied.
C3_CopyIffEligible ==
    (lastEval # NoEval /\ ~lastEval.ctx.dryRun) =>
        /\ CopyCalled(lastEval) <=> Eligible(lastEval)
        /\ lastEval.info.symlink => ~CopyCalled(lastEval)

\* C3's case: a file exactly as large as maxSize, with an older destination,
\* was copied.
C3_Witness ==
    /\ lastEval # NoEval
    /\ ~lastEval.ctx.dryRun
    /\ lastEval.info.size = lastEval.ctx.maxSize
    /\ DestBefore(lastEval).ok
    /\ CopyCalled(lastEval)

\* C4: when the first call of Backup, not a dry run, ended without error, the
\* second call with the same configuration and the same sources calls copy
\* for no file, and every summary it writes reports no file copied.
C4_SecondRunCopiesNothing ==
    (run = 2 /\ first.ev.kind = "nil" /\ ~first.ctx.dryRun) =>
        /\ \A k \in 1..Len(RunCalls) : RunCalls[k].op # "copy"
        /\ \A k \in 1..Len(ctx.out) :
              ctx.out[k][1] = "summary" => ctx.out[k][4] = 0

\* C5: in a dry run no capability that changes the filesystem - mkdirAll,
\* chmod, copy - is ever called.
C5_DryRunCallsNoMutator ==
    ctx.dryRun =>
        \A k \in 1..Len(RunCalls) : RunCalls[k].op \notin {"mkdirAll", "chmod", "copy"}

\* maxErrors messages are recorded.
AtCap == Len(ctx.msgs) >= maxErrors

\* C6: once maxErrors messages are recorded Backup has ended, by the recovered
\* panic; from then on no line is interpreted, no entry of the traversal is
\* taken up, and no capability is called: the line position, the entries left
\* of the traversal, the call log and the destination files stay as they are.
\* When the last message reports a failed capability call, that call is the
\* last one made.
C6_AbortAtCap ==
    /\ [](AtCap => /\ pc = "done"
                   /\ Aborted
                   /\ ctx.msgs[Len(ctx.msgs)][1] # "regexp" =>
                        /\ calls # <<>>
                        /\ calls[Len(calls)].op = ctx.msgs[Len(ctx.msgs)][1])
    /\ [][AtCap => UNCHANGED <<ctx, i, walk, calls, dest, lastEval>>]_vars

\* C6's case: the cap was reached inside a directory traversal, with entries
\* left that are never evaluated.
C6_Witness ==
    /\ AtCap
    /\ pc = "done"
    /\ walk # <<>>
    /\ \E k \in 1..Len(walk) : ~walk[k].info.isDir

\* C7: never more than maxErrors messages are recorded; and when Backup ended
\* with a message recorded, other than on the missing-target error, its
\* result is "<N> errors" with N the number of recorded messages, which is
\* maxErrors when the run was aborted and less otherwise.
C7_ErrorCount ==
    /\ Len(ctx.msgs) <= maxErrors
    /\ (pc = "done" /\ Len(ctx.msgs) > 0 /\ ~Fatal) =>
          /\ ev = [kind |-> "errors", n |-> Len(ctx.msgs)]
          /\ Aborted => ev.n = maxErrors
          /\ ~Aborted => ev.n < maxErrors

\* C7's case: Backup went through the whole configuration with a message
\* recorded and the cap not reached.
C7_Witness ==
    /\ pc = "done"
    /\ ~Fatal
    /\ ~Aborted
    /\ i > Len(config)
    /\ ev.kind = "errors"
    /\ ev.n = Len(ctx.msgs)
    /\ ev.n >= 1

\* The kind of line n of the configuration.
KindOf(n) == LineKind(TrimSpace(config[n]))

\* The pieces of the exclude directive at line n that are patterns: not empty,
\* and compiling.
ValidPatterns(n) ==
    SelectSeq(Split(TrimSpace(Argument(TrimSpace(config[n]))), <<",", ",">>),
              LAMBDA part : part # <<>> /\ RegexpCompiles(part))

\* The position of the last plain exclude directive among lines 1..n, 0 without one.
LastPlainExclude(n) ==
    IF \E p \in 1..n : KindOf(p) = "exclude"
    THEN CHOOSE p \in 1..n :
            KindOf(p) = "exclude" /\ \A q \in (p + 1)..n : KindOf(q) # "exclude"
    ELSE 0

RECURSIVE PatternsOf(_, _)
\* The valid patterns of the exclude and extend directives at lines from..to,
\* in order.
PatternsOf(from, to) ==
    IF from > to THEN <<>>
    ELSE (IF from >= 1 /\ KindOf(from) \in {"exclude", "extendExclude"}
          THEN ValidPatterns(from) ELSE <<>>)
         \o PatternsOf(from + 1, to)

\* The run was aborted inside the exclude directive the loop stands at.
AbortedInExclude ==
    /\ Aborted
    /\ i <= Len(config)
    /\ KindOf(i) \in {"exclude", "extendExclude"}

\* C8: after the directives of lines 1..i-1 the active exclude set is the
\* valid patterns of the last plain exclude directive among them, followed in
\* order by those of every extend directive after it (a plain exclude replaces
\* the set, an extend appends to it, a plain exclude without argument empties
\* it).  A run that the error cap aborted inside an exclude directive is over
\* and has no active set.
C8_ActiveExclude ==
    ~AbortedInExclude =>
        ctx.exclude = PatternsOf(LastPlainExclude(i - 1), i - 1)

\* C8's case: a plain exclude replaced the pattern of an earlier one, and an
\* extend directive then added a second pattern.
C8_Witness ==
    /\ i = 4
    /\ KindOf(1) = "exclude"
    /\ ValidPatterns(1) # <<>>
    /\ KindOf(2) = "exclude"
    /\ ValidPatterns(2) # ValidPatterns(1)
    /\ KindOf(3) = "extendExclude"
    /\ ctx.exclude = ValidPatterns(2) \o ValidPatterns(3)
    /\ Len(ctx.exclude) = 2

\* The destination of the file a call is made for: the target in effect at
\* the line of the call, then the source path without its volume name.
ExpectedDest(call) ==
    TargetBefore(call.line) \o Drop(call.src, Len(VolumeName(isWin, call.src)))

\* C9: every stat, chmod and copy of a destination is given the target set by
\* the last target directive before the source line (without its closing
\* separator) followed by the source path without its volume name, and
\* mkdirAll the directory of that path; calls made before a later target
\* directive keep the path of the earlier target.
C9_DestinationPath ==
    \A k \in 1..Len(calls) :
        /\ (calls[k].op \in {"copy", "chmod"}
              \/ (calls[k].op = "stat" /\ calls[k].path # calls[k].src))
             => calls[k].path = ExpectedDest(calls[k])
        /\ calls[k].op = "mkdirAll"
             => calls[k].path = Dir(isWin, ExpectedDest(calls[k]))

\* C9's case: on Windows a file was copied under the second of two targets.
C9_Witness ==
    /\ isWin
    /\ Len(config) = 3
    /\ KindOf(1) = "target"
    /\ KindOf(2) = "target"
    /\ TargetBefore(2) # TargetBefore(3)
    /\ \E k \in 1..Len(calls) :
          /\ calls[k].op = "copy"
          /\ calls[k].line = 3
          /\ calls[k].path = TargetBefore(3) \o Drop(calls[k].src, 2)

\* A step in which a per-file operation fails: the stat of a source line, the
\* Info of an entry of a traversal, mkdirAll, or copy.
FailureStep ==
    \/ SourceStatFails
    \/ WalkInfoFails
    \/ /\ SourceFile \/ WalkFile
       /\ \/ ~lastEval'.mkdirOk
          \/ lastEval'.copy \in {"open_failed", "create_failed", "copy_failed",
                                 "call_failed"}

\* C10: every failing stat of a source (a source line or an entry of a
\* traversal), every failing mkdirAll and every failing copy records exactly
\* one message, and counts no copy.
C10_OneMessagePerFailure ==
    [][FailureStep =>
          /\ Len(ctx'.msgs) = Len(ctx.msgs) + 1
          /\ ctx'.count.copied = ctx.count.copied]_vars

\* s is written as an integer: decimal digits, after a sign or without one.
IsInteger(s) ==
    \/ IsDigits(s)
    \/ s # <<>> /\ Head(s) \in {"+", "-"} /\ IsDigits(Tail(s))

\* The loop stands at a max-age or max-size directive whose argument is no
\* integer.
NonIntegerFilter ==
    /\ AtLine
    /\ \/ HasPrefix(CurrentLine, <<"!", "@">>)
       \/ HasPrefix(CurrentLine, <<"!", ">">>)
    /\ ~IsInteger(TrimSpace(Drop(CurrentLine, 2)))

\* C11: interpreting a max-age or max-size directive whose argument is no
\* integer leaves startDate and maxSize (and the target and the exclude set)
\* as they were, goes on with the next line without any capability call and
\* without the fatal error, records no message, and writes one warning.
C11_NonIntegerFilter ==
    [][NonIntegerFilter =>
          /\ ctx'.startDate = ctx.startDate
          /\ ctx'.maxSize = ctx.maxSize
          /\ ctx'.targetPath = ctx.targetPath
          /\ ctx'.exclude = ctx.exclude
          /\ ctx'.msgs = ctx.msgs
          /\ ctx'.out = Append(ctx.out, <<"WARN">>)
          /\ calls' = calls
          /\ pc' = "line"
          /\ i' = i + 1
          /\ ev' = ev]_vars

\* C11's case: a max-age directive set the start date, a second one without a
\* number was interpreted, with no target set, and the start date is still
\* that of the first.
C11_Witness ==
    /\ i = 3
    /\ pc = "line"
    /\ IsInteger(TrimSpace(Drop(TrimSpace(config[1]), 2)))
    /\ HasPrefix(TrimSpace(config[1]), <<"!", "@">>)
    /\ HasPrefix(TrimSpace(config[2]), <<"!", "@">>)
    /\ ~IsInteger(TrimSpace(Drop(TrimSpace(config[2]), 2)))
    /\ ctx.startDate = StartDate(1)
    /\ ctx.targetPath = <<>>
    /\ ctx.msgs = <<>>
    /\ ctx.out = <<<<"WARN">>>>

\* The destination path of the file of evaluation e.
DestOf(e) == e.ctx.targetPath \o Drop(e.src, Len(VolumeName(isWin, e.src)))

\* A step of a run that is no dry run in which handleFile counts its file as
\* copied: copy returned no error.
CountedCopied ==
    /\ SourceFile \/ WalkFile
    /\ ~ctx.dryRun
    /\ ctx'.count.copied = ctx.count.copied + 1

\* C12: whenever a file is counted as copied, its destination exists with the
\* modification time of the source and the permission bits 0660.
C12_CopyKeepsTimeAndMode ==
    [][CountedCopied =>
          /\ DestOf(lastEval') \in DOMAIN dest'
          /\ dest'[DestOf(lastEval')].modTime = lastEval'.info.modTime
          /\ dest'[DestOf(lastEval')].mode = copyFilePerm]_vars

\* The Copied counts of the summaries written to out, one per directory
\* source, in order.
CopiedCounts(out) ==
    LET sums == SelectSeq(out, LAMBDA item : item[1] = "summary")
    IN  [k \in 1..Len(sums) |-> sums[k][4]]

\* The paths a dry run wrote to out as would-be copies.
DryRunPaths(out) == {out[k][2] : k \in {j \in 1..Len(out) : out[j][1] = "copy"}}

\* The source files copy was called for during the current call of Backup.
CopiedFiles == {RunCalls[k].src : k \in {j \in 1..Len(RunCalls) : RunCalls[j].op = "copy"}}

\* C13: a dry run followed by a real run with the same configuration on the
\* same files, no filesystem operation failing in either: the Copied counts of
\* the dry run's summaries are, source by source, those of the real run's, and
\* the paths the dry run printed are the files the real run copied.
C13_DryRunPredictsRealRun ==
    (run = 2 /\ pc = "done" /\ first.ctx.dryRun /\ faults = 0) =>
        /\ CopiedCounts(first.ctx.out) = CopiedCounts(ctx.out)
        /\ DryRunPaths(first.ctx.out) = CopiedFiles

\* No filter rules out the file of evaluation e.
Unfiltered(e) ==
    /\ ~e.info.symlink
    /\ e.info.size <= e.ctx.maxSize
    /\ e.info.modTime >= e.ctx.startDate
    /\ \A k \in 1..Len(e.ctx.exclude) : ~MatchString(e.ctx.exclude[k], e.src)

\* C14: a destination that copy left with a part of the content only is older
\* than its source, so the Sync Policy does not take it for in sync; and a
\* run that is no dry run calls copy again for every unfiltered file whose
\* destination holds a part of the content only.
C14_PartialIsCopiedAgain ==
    lastEval # NoEval =>
        /\ (CopyCalled(lastEval)
              /\ DestOf(lastEval) \in DOMAIN dest
              /\ ~dest[DestOf(lastEval)].whole)
             => dest[DestOf(lastEval)].modTime < lastEval.info.modTime
        /\ (~lastEval.ctx.dryRun
              /\ Unfiltered(lastEval)
              /\ DestOf(lastEval) \in DOMAIN lastEval.fs
              /\ ~lastEval.fs[DestOf(lastEval)].whole)
             => CopyCalled(lastEval)

\* The callback of the traversal is about to be called for a directory.
DirVisit == pc = "walk" /\ walk # <<>> /\ Head(walk).info.isDir

\* The path of directory entry e, closed by a separator, matches an active
\* exclude pattern.
DirExcluded(e) ==
    \E k \in 1..Len(ctx.exclude) :
        MatchString(ctx.exclude[k], e.path \o <<Separator(isWin)>>)

\* C15: when the traversal comes to a directory whose path with a closing
\* separator matches an active exclude pattern (the root included), the
\* directory counter stays, no capability is called, and no entry below the
\* directory is left to be visited; when it comes to a directory that matches
\* no pattern, the directory counter grows by exactly one.
C15_PrunedAndCounted ==
    [][DirVisit =>
          IF DirExcluded(Head(walk))
          THEN /\ ctx'.count = ctx.count
               /\ calls' = calls
               /\ lastEval' = lastEval
               /\ \A k \in 1..Len(walk') :
                     ~HasPrefix(walk'[k].path, Head(walk).path \o <<Separator(isWin)>>)
          ELSE ctx'.count.dir = ctx.count.dir + 1]_vars

\* A step that records a message and leaves the count below the cap.
RecordedBelowCap ==
    /\ Len(ctx'.msgs) > Len(ctx.msgs)
    /\ Len(ctx'.msgs) < maxErrors

\* C16: a step that records an error without reaching the cap does not end
\* the run: inside a traversal the entry is left behind and all the others
\* stay to be visited, at a source or directive line the loop goes on with the
\* next line.  Every run ends, and a run ended by neither the cap nor the
\* missing-target error has interpreted every line and finished every
\* traversal, and returns the count of all the messages recorded.
C16_ErrorsDoNotInterrupt ==
    /\ [][RecordedBelowCap =>
             /\ pc' = pc
             /\ IF pc = "walk"
                THEN i' = i /\ walk' = Tail(walk)
                ELSE i' = i + 1 /\ walk' = walk]_vars
    /\ []((pc = "done" /\ ~Fatal /\ ~Aborted) =>
             /\ i = Len(config) + 1
             /\ walk = <<>>
             /\ Len(ctx.msgs) > 0 => ev = [kind |-> "errors", n |-> Len(ctx.msgs)])
    /\ <>(pc = "done")

\* C16's case: in a finished run the copy of one file of a traversal failed,
\* and a file that came later in the same traversal was copied.
C16_Witness ==
    /\ pc = "done"
    /\ ~Aborted
    /\ Len(ctx.msgs) = 1
    /\ ctx.msgs[1][1] = "copy"
    /\ \E k \in 1..Len(ctx.out) : ctx.out[k][1] = "summary" /\ ctx.out[k][4] = 1
    /\ \E a, b \in 1..Len(calls) :
          /\ a < b
          /\ calls[a].op = "copy"
          /\ calls[b].op = "copy"
          /\ calls[a].line = calls[b].line
          /\ calls[a].src # calls[b].src

\* The evaluation e called chmod on the destination of its file.
ChmodCalled(e) ==
    \E k \in 1..Len(e.calls) : e.calls[k].op = "chmod" /\ e.calls[k].path = DestOf(e)

\* C17: on Windows, whenever handleFile evaluates an unfiltered file whose
\* destination exists, is not older than the file and is marked read-only, it
\* calls chmod on the destination before it skips the file.
C17_ClearsReadOnlyBeforeSkip ==
    (isWin
       /\ lastEval # NoEval
       /\ Unfiltered(lastEval)
       /\ DestBefore(lastEval).ok
       /\ ~(DestBefore(lastEval).info.modTime < lastEval.info.modTime)
       /\ ~HasBit(DestBefore(lastEval).info.mode, ownerWriteBit))
      => ChmodCalled(lastEval)

\* The form of a trimmed line as C18 words it: the first of the listed forms
\* the line matches, "path" when it matches none.
FormOf(l) ==
    CASE l = <<>> \/ HasPrefix(l, <<"#">>) -> "ignored"
      [] HasPrefix(l, <<"=", ">">>) -> "target"
      [] HasPrefix(l, <<"!", "@">>) -> "maxAge"
      [] HasPrefix(l, <<"!", ">">>) -> "maxSize"
      [] HasPrefix(l, <<"!", "+">>) -> "extendExclude"
      [] HasPrefix(l, <<"!">>) -> "exclude"
      [] OTHER -> "path"

\* Sequence s begins with sequence p.
IsPrefix(p, s) == Len(p) <= Len(s) /\ SubSeq(s, 1, Len(p)) = p

\* What the step that interprets line l of form f does, form by form.
ActsAs(f, l) ==
    /\ f # "path" =>
          /\ calls' = calls
          /\ walk' = walk
          /\ dest' = dest
          /\ lastEval' = lastEval
          /\ ~Fatal'
          /\ (pc' = "line" /\ i' = i + 1) \/ Aborted'
    /\ f = "path" => Fatal' \/ Len(calls') > Len(calls)
    /\ f = "ignored" => ctx' = ctx
    /\ f = "target" =>
          /\ ctx'.targetPath = TrimSuffix(TrimLeft(Drop(l, 2)), <<Separator(isWin)>>)
          /\ ctx'.exclude = ctx.exclude
    /\ f = "maxAge" =>
          /\ ctx'.exclude = ctx.exclude
          /\ ctx'.maxSize = ctx.maxSize
          /\ ctx'.msgs = ctx.msgs
          /\ IsInteger(TrimLeft(Drop(l, 2))) => ctx'.startDate # 0
    /\ f = "maxSize" =>
          /\ ctx'.exclude = ctx.exclude
          /\ ctx'.startDate = ctx.startDate
          /\ ctx'.msgs = ctx.msgs
          /\ IsInteger(TrimLeft(Drop(l, 2))) => ctx'.maxSize # MaxInt64
    /\ f = "extendExclude" =>
          /\ IsPrefix(ctx.exclude, ctx'.exclude)
          /\ ctx'.startDate = ctx.startDate
          /\ ctx'.maxSize = ctx.maxSize
    /\ f = "exclude" =>
          /\ ~Aborted' => ctx'.exclude = ValidPatterns(i)
          /\ ctx'.startDate = ctx.startDate
          /\ ctx'.maxSize = ctx.maxSize

\* C18: the step that interprets a line acts by the first form the trimmed
\* line matches - ignored, target, max-age, max-size, extend-exclude, plain
\* exclude, in that order.  A line of one of these forms causes no stat, no
\* traversal and no fatal error; a line of none of them is a source path (it
\* is given to stat, or ends the run on the missing target); a "!+" line keeps
\* every pattern the set holds; "!@" and "!>" lines leave the set alone.
C18_LineClassification ==
    [][AtLine => ActsAs(FormOf(TrimSpace(config[i])), TrimSpace(config[i]))]_vars

\* C18's case: a "!+" line came after a plain exclude and added its pattern to
\* the one the set held, and a max-age line written after white space set the
\* start date; no capability was called.
C18_Witness ==
    /\ i = 4
    /\ pc = "line"
    /\ FormOf(TrimSpace(config[1])) = "exclude"
    /\ FormOf(TrimSpace(config[2])) = "extendExclude"
    /\ FormOf(TrimSpace(config[3])) = "maxAge"
    /\ config[3] # TrimSpace(config[3])
    /\ Len(ctx.exclude) = 2
    /\ ctx.startDate = StartDate(1)
    /\ calls = <<>>

\* The pieces of the exclude or extend directive l, cut at ",,".
Pieces(l) ==
    Split(TrimSpace(Drop(l, IF HasPrefix(l, <<"!", "+">>) THEN 2 ELSE 1)), <<",", ",">>)

\* The pieces of l that are not empty and do not compile, in order.
BadPieces(l) == SelectSeq(Pieces(l), LAMBDA part : part # <<>> /\ ~RegexpCompiles(part))

\* The pieces of l that are not empty and compile, in order.
GoodPieces(l) == SelectSeq(Pieces(l), LAMBDA part : part # <<>> /\ RegexpCompiles(part))

\* The loop stands at an exclude or extend directive.
AtExclude == AtLine /\ FormOf(CurrentLine) \in {"exclude", "extendExclude"}

\* C19: interpreting an exclude or extend directive never makes a piece active
\* that is empty or does not compile; and as long as the error cap is not
\* reached, it records exactly one message for every piece that is not empty
\* and does not compile, in order, and none for any other piece, makes every
\* piece that compiles active (after the patterns held, for an extend
\* directive; alone, for a plain one), and the loop goes on with the next line.
C19_BadPiecesRecorded ==
    [][AtExclude =>
          /\ \A k \in 1..Len(ctx'.exclude) :
                ctx'.exclude[k] # <<>> /\ RegexpCompiles(ctx'.exclude[k])
          /\ Len(ctx.msgs) + Len(BadPieces(CurrentLine)) < maxErrors =>
                /\ ctx'.msgs = ctx.msgs
                     \o [k \in 1..Len(BadPieces(CurrentLine)) |->
                            <<"regexp", BadPieces(CurrentLine)[k]>>]
                /\ ctx'.exclude =
                     (IF FormOf(CurrentLine) = "extendExclude" THEN ctx.exclude ELSE <<>>)
                        \o GoodPieces(CurrentLine)
                /\ pc' = "line"
                /\ i' = i + 1]_vars

\* C19's case: a directive with a piece that does not compile before one that
\* does was interpreted: one message, the second piece active, the run going on.
C19_Witness ==
    /\ i = 2
    /\ pc = "line"
    /\ Len(BadPieces(TrimSpace(config[1]))) = 1
    /\ Len(GoodPieces(TrimSpace(config[1]))) = 1
    /\ ctx.msgs = <<<<"regexp", BadPieces(TrimSpace(config[1]))[1]>>>>
    /\ ctx.exclude = GoodPieces(TrimSpace(config[1]))
    /\ Len(config) > 1

\* C20: the counters are reset when the processing of a source line begins:
\* a directory source starts its traversal with all three at zero, and after
\* a single-file source the counters count that file alone.
C20_CountersResetPerSource ==
    [][/\ SourceDir => ctx'.count = NoCounts
       /\ SourceFile =>
             /\ ctx'.count.dir = 0
             /\ ctx'.count.files = 1
             /\ ctx'.count.copied <= 1]_vars

\* The position of the last line of form f with an integer argument before
\* line n, 0 without one.
LastFilter(f, n) ==
    LET Sets(p) == /\ FormOf(TrimSpace(config[p])) = f
                   /\ IsInteger(TrimLeft(Drop(TrimSpace(config[p]), 2)))
    IN  IF \E p \in 1..(n - 1) : Sets(p)
        THEN CHOOSE p \in 1..(n - 1) : Sets(p) /\ \A q \in (p + 1)..(n - 1) : ~Sets(q)
        ELSE 0

\* The directive at line n names one day, or one byte.
NamesOne(n) == TrimLeft(Drop(TrimSpace(config[n]), 2)) = <<"1">>

\* C21: a target directive leaves startDate, maxSize, the exclude set, the
\* counters and the messages as they are; a max-age directive leaves the
\* target, maxSize and the exclude set, a max-size directive the target,
\* startDate and the exclude set, an exclude or extend directive the target,
\* startDate and maxSize.  So the filters handleFile works with are those of
\* the last max-age and max-size directives before the source line, whatever
\* target directives stand in between, and the defaults when there is none.
C21_DirectiveFrame ==
    /\ [][AtLine =>
             /\ FormOf(CurrentLine) = "target" =>
                   /\ ctx'.startDate = ctx.startDate
                   /\ ctx'.maxSize = ctx.maxSize
                   /\ ctx'.exclude = ctx.exclude
                   /\ ctx'.msgs = ctx.msgs
                   /\ ctx'.count = ctx.count
             /\ FormOf(CurrentLine) = "maxAge" =>
                   /\ ctx'.targetPath = ctx.targetPath
                   /\ ctx'.maxSize = ctx.maxSize
                   /\ ctx'.exclude = ctx.exclude
             /\ FormOf(CurrentLine) = "maxSize" =>
                   /\ ctx'.targetPath = ctx.targetPath
                   /\ ctx'.startDate = ctx.startDate
                   /\ ctx'.exclude = ctx.exclude
             /\ FormOf(CurrentLine) \in {"exclude", "extendExclude"} =>
                   /\ ctx'.targetPath = ctx.targetPath
                   /\ ctx'.startDate = ctx.startDate
                   /\ ctx'.maxSize = ctx.maxSize]_vars
    /\ [](lastEval # NoEval =>
             /\ lastEval.ctx.maxSize =
                   IF LastFilter("maxSize", lastEval.line) = 0 THEN MaxInt64
                   ELSE IF NamesOne(LastFilter("maxSize", lastEval.line)) THEN 1
                   ELSE lastEval.ctx.maxSize
             /\ lastEval.ctx.startDate =
                   IF LastFilter("maxAge", lastEval.line) = 0 THEN 0
                   ELSE IF NamesOne(LastFilter("maxAge", lastEval.line))
                   THEN StartDate(1)
                   ELSE lastEval.ctx.startDate)

\* C21's case: a max-size directive, then a target directive, then a source:
\* the file was evaluated under the size limit set before the target.
C21_Witness ==
    /\ lastEval # NoEval
    /\ lastEval.line = 3
    /\ FormOf(TrimSpace(config[1])) = "maxSize"
    /\ FormOf(TrimSpace(config[2])) = "target"
    /\ lastEval.ctx.maxSize = 1
    /\ lastEval.info.size > 1
    /\ lastEval.calls = <<>>

\* The callback of the traversal is about to be called for an entry that is
\* no directory.
FileVisit == pc = "walk" /\ walk # <<>> /\ ~Head(walk).info.isDir

\* The step called handleFile, and copy returned no error to it or, in a dry
\* run, the file was written to the output as a would-be copy.
CopySucceeded ==
    /\ lastEval' # lastEval
    /\ IF ctx.dryRun
       THEN Len(ctx'.out) > Len(ctx.out)
              /\ ctx'.out[Len(ctx.out) + 1] = <<"copy", lastEval'.src>>
       ELSE CopyCalled(lastEval')
              /\ lastEval'.copy \in {"ok", "chmod_failed", "chtimes_failed"}

\* C22: a traversal starts with the counters at zero; every entry that is no
\* directory and is delivered to the callback adds exactly one to the file
\* counter, whether a filter rules it out or not, and one to the copied
\* counter exactly when copy succeeds for it (or would be called, in a dry
\* run); directories change neither; the summary reports the counters as
\* they stand when the traversal ends; and Copied never exceeds Files.
C22_SummaryCounts ==
    /\ [][/\ SourceDir => ctx'.count = NoCounts
          /\ FileVisit =>
                /\ ctx'.count.files = ctx.count.files + 1
                /\ ctx'.count.copied =
                      ctx.count.copied + (IF CopySucceeded THEN 1 ELSE 0)
          /\ DirVisit =>
                /\ ctx'.count.files = ctx.count.files
                /\ ctx'.count.copied = ctx.count.copied
          /\ WalkDone =>
                ctx'.out = Append(ctx.out, <<"summary", ctx.count.dir,
                                            ctx.count.files, ctx.count.copied>>)]_vars
    /\ [](pc = "walk" => ctx.count.copied <= ctx.count.files)

=============================================================================
